---- MODULE Spec2Model ----
(***************************************************************************)
(* Model of the integration-test harness of scripts/setup.js (TestBase)    *)
(* and of the three phase runners scripts/phase1.js, phase2.js, phase3.js. *)
(*                                                                         *)
(* Strings are sequences of text fragments: concatenation is \o, the       *)
(* substring test of String.prototype.includes is a contiguous             *)
(* sub-sequence test, and toLowerCase maps every fragment to its           *)
(* lower-case spelling.                                                    *)
(* Amounts of ether are counted in units of 0.0005 ETH (5 * 10^14 wei).    *)
(***************************************************************************)
EXTENDS Integers, Sequences, FiniteSets, TLC

VARIABLES
    results,    \* this.results: [passed, failed, errors]          (setup.js:35)
    history,    \* one record per settled runTest invocation, in order (ghost)
    last,       \* the latest direct call of a harness primitive and its outcome
    phase,      \* which entry point runs: 0 none, 1..3 = phase1/2/3.js
    pc,         \* position of main() of that entry point
    env,        \* process.env as read at module load          (setup.js:6-8)
    wiring,     \* the objects setupWallets has created so far (setup.js:49-55)
    chain,      \* storage of the deployed contract and the provider's balance
    testApiId,  \* this.testApiId of PaymentSystemTests       (phase3.js:9,73)
    exitCode,   \* -1 while running, else the status the process ended with
    run,        \* the script being executed one await at a time, and where
    tasks,      \* runTest invocations in flight at once, by task
    results2    \* this.results of a second harness instance

vars == <<results, history, last, phase, pc, env, wiring, chain, testApiId, exitCode,
          run, tasks, results2>>

----------------------------------------------------------------------------
(* Bounds of the model *)

MaxTests == 2
MaxLogs == 3
MaxApiId == 3
MaxTasks == 3

----------------------------------------------------------------------------
(* Strings *)

\* String.prototype.includes: t occurs in s as a contiguous run ("" always does).
Includes(s, t) ==
    \E i \in 0..(Len(s) - Len(t)) : SubSeq(s, i + 1, i + Len(t)) = t

LowerFragment(f) ==
    CASE f = "Expected transaction to revert" -> "expected transaction to revert"
      [] f = "Insufficient stake" -> "insufficient stake"
      [] f = "INSUFFICIENT STAKE" -> "insufficient stake"
      [] f = "Execution Reverted: " -> "execution reverted: "
      [] f = "Require failed" -> "require failed"
      [] OTHER -> f

\* String.prototype.toLowerCase
ToLowerCase(s) == [i \in 1..Len(s) |-> LowerFragment(s[i])]

\* The marker expectRevert looks for in a caught error (setup.js:83, phase2.js:164).
RevertMarker == <<"Expected transaction to revert">>

\* The message expectRevert raises for a promise that resolved (setup.js:81).
SucceededMessage == <<"Expected transaction to revert", " but it succeeded">>

\* Messages of the TypeError the engine raises on a property read of null or
\* undefined.
NullReadMessage == <<"Cannot read properties of null">>
UndefinedReadMessage == <<"Cannot read properties of undefined">>

----------------------------------------------------------------------------
(* JavaScript values that can be thrown, and completions *)

\* new Error(m)
Error(m) == [tag |-> "Error", message |-> m]
\* null or undefined: reading .message of it raises a TypeError
Nullish == [tag |-> "nullish", message |-> <<>>]
\* a value with no message property (a thrown string, number, plain object)
Messageless == [tag |-> "messageless", message |-> <<>>]
NoValue == [tag |-> "none", message |-> <<>>]

\* Completion of a function call or of an awaited promise.
Return(r) == [kind |-> "return", ret |-> r, err |-> NoValue]
Throw(v) == [kind |-> "throw", ret |-> "none", err |-> v]

\* An optional string argument: absent is undefined.
Absent == [present |-> FALSE, str |-> <<>>]
Given(s) == [present |-> TRUE, str |-> s]

\* error.message: [ok] is FALSE when the read itself raises (error is
\* nullish), [defined] is FALSE when the property is undefined.
ReadMessage(v) ==
    CASE v.tag = "nullish" -> [ok |-> FALSE, defined |-> FALSE, str |-> <<>>]
      [] v.tag = "Error" -> [ok |-> TRUE, defined |-> TRUE, str |-> v.message]
      [] OTHER -> [ok |-> TRUE, defined |-> FALSE, str |-> <<>>]

\* `${x}` of a property that was read: undefined prints as "undefined".
Interpolate(m) == IF m.defined THEN m.str ELSE <<"undefined">>

----------------------------------------------------------------------------
(* TestBase primitives (setup.js) *)

\* constructor: this.results (setup.js:35-39)
NewResults == [passed |-> 0, failed |-> 0, errors |-> <<>>]

\* assert(condition, message) (setup.js:104-108)
assert(condition, message) ==
    IF ~condition THEN Throw(Error(message)) ELSE Return("undefined")

\* runTest pushing the failure at the front of errors instead of its end.
runTestPrepend(res, testName, act) ==
    IF act.kind = "return"
    THEN [results |-> [res EXCEPT !.passed = @ + 1], out |-> Return("true")]
    ELSE LET m == ReadMessage(act.err) IN
         IF ~m.ok
         THEN [results |-> res, out |-> Throw(Error(NullReadMessage))]
         ELSE [results |-> [res EXCEPT
                       !.failed = @ + 1,
                       !.errors = <<testName \o <<": ">> \o Interpolate(m)>> \o @],
               out |-> Return("false")]

\* runTest raising the caught error again after counting it.
runTestRethrow(res, testName, act) ==
    IF act.kind = "return"
    THEN [results |-> [res EXCEPT !.passed = @ + 1], out |-> Return("true")]
    ELSE LET m == ReadMessage(act.err) IN
         IF ~m.ok
         THEN [results |-> res, out |-> Throw(Error(NullReadMessage))]
         ELSE [results |-> [res EXCEPT
                       !.failed = @ + 1,
                       !.errors = Append(@, testName \o <<": ">> \o Interpolate(m))],
               out |-> Throw(act.err)]

\* runTest(testName, testFunction) (setup.js:62-76); act is the completion of
\* `await testFunction()`.  The catch block reads error.message (line 71)
\* before it counts the failure (line 72): when that read raises, the
\* TypeError leaves runTest and nothing has been counted.
runTest(res, testName, act) ==
    IF act.kind = "return"
    THEN [results |-> [res EXCEPT !.passed = @ + 1], out |-> Return("true")]
    ELSE LET m == ReadMessage(act.err) IN
         IF ~m.ok
         THEN [results |-> res, out |-> Throw(Error(NullReadMessage))]
         ELSE [results |-> [res EXCEPT
                       !.failed = @ + 1,
                       !.errors = Append(@, testName \o <<": ">> \o Interpolate(m))],
               out |-> Return("false")]


\* expectRevert without the test of line 83: its own error is swallowed too.
expectRevertNoRethrow(promise, expectedMessage) ==
    LET error == IF promise.kind = "return" THEN Error(SucceededMessage) ELSE promise.err
        m == ReadMessage(error)
        truthy == expectedMessage.present /\ expectedMessage.str # <<>>
    IN  CASE ~m.ok -> [out |-> Throw(Error(NullReadMessage)), warned |-> FALSE]
          [] m.ok /\ ~m.defined ->
                [out |-> Throw(Error(UndefinedReadMessage)), warned |-> FALSE]
          [] OTHER ->
                [out |-> Return("undefined"),
                 warned |-> truthy /\ ~Includes(ToLowerCase(m.str),
                                                ToLowerCase(expectedMessage.str))]

\* TestBase.expectRevert(promise, expectedMessage) (setup.js:78-91); promise is
\* the completion of `await promise`.  [warned] tells whether console.warn ran.
expectRevert(promise, expectedMessage) ==
    LET error == IF promise.kind = "return" THEN Error(SucceededMessage) ELSE promise.err
        m == ReadMessage(error)
        truthy == expectedMessage.present /\ expectedMessage.str # <<>>
    IN  CASE ~m.ok -> [out |-> Throw(Error(NullReadMessage)), warned |-> FALSE]
          [] m.ok /\ ~m.defined ->
                [out |-> Throw(Error(UndefinedReadMessage)), warned |-> FALSE]
          [] m.ok /\ m.defined /\ Includes(m.str, RevertMarker) ->
                [out |-> Throw(error), warned |-> FALSE]
          [] OTHER ->
                [out |-> Return("undefined"),
                 warned |-> truthy /\ ~Includes(ToLowerCase(m.str),
                                                ToLowerCase(expectedMessage.str))]

\* RegistrationEdgeTests.expectRevert (phase2.js:159-178): the override calls
\* expectedMessage.toLowerCase() without testing expectedMessage first
\* (line 170) and returns true (line 176).
expectRevertPhase2(promise, expectedMessage) ==
    LET error == IF promise.kind = "return" THEN Error(SucceededMessage) ELSE promise.err
        m == ReadMessage(error)
    IN  CASE ~m.ok -> [out |-> Throw(Error(NullReadMessage)), warned |-> FALSE]
          [] m.ok /\ ~m.defined ->
                [out |-> Throw(Error(UndefinedReadMessage)), warned |-> FALSE]
          [] m.ok /\ m.defined /\ Includes(m.str, RevertMarker) ->
                [out |-> Throw(error), warned |-> FALSE]
          [] m.ok /\ m.defined /\ ~Includes(m.str, RevertMarker)
                  /\ ~expectedMessage.present ->
                [out |-> Throw(Error(UndefinedReadMessage)), warned |-> FALSE]
          [] OTHER ->
                [out |-> Return("true"),
                 warned |-> ~Includes(ToLowerCase(m.str),
                                      ToLowerCase(expectedMessage.str))]

\* The events of CONTRACT_ABI (setup.js:29-30).
AbiEvents == {"APIRegistered", "APIPayment"}

\* this.contract1.interface.parseLog(log) (setup.js:96): the decoded event of a
\* log of one of the ABI's events, null for a log of no event of the ABI, and
\* an exception for a log that cannot be decoded.
ParseLog(log) ==
    CASE log.topic \in AbiEvents -> [kind |-> "return", isNull |-> FALSE, name |-> log.topic]
      [] log.topic = "foreign" -> [kind |-> "return", isNull |-> TRUE, name |-> ""]
      [] OTHER -> [kind |-> "throw", isNull |-> FALSE, name |-> ""]

\* The callback given to find (setup.js:94-101): reading parsed.name of a
\* null result raises inside the try, so it ends in the catch like a failed
\* decoding.
LogMatches(log, eventName) ==
    LET parsed == ParseLog(log) IN
    IF parsed.kind = "throw" \/ parsed.isNull THEN FALSE ELSE parsed.name = eventName

\* What Array.prototype.find returns when no element matches.
UndefinedLog == [topic |-> "undefined", data |-> 0]

\* findEvent scanning the logs from the end.
RECURSIVE findEventLast(_, _)
findEventLast(logs, eventName) ==
    IF logs = <<>> THEN UndefinedLog
    ELSE IF LogMatches(logs[Len(logs)], eventName) THEN logs[Len(logs)]
    ELSE findEventLast(SubSeq(logs, 1, Len(logs) - 1), eventName)

\* findEvent(receipt, eventName) (setup.js:93-102); logs is receipt.logs.
RECURSIVE findEvent(_, _)
findEvent(logs, eventName) ==
    IF logs = <<>> THEN UndefinedLog
    ELSE IF LogMatches(Head(logs), eventName) THEN Head(logs)
    ELSE findEvent(Tail(logs), eventName)

----------------------------------------------------------------------------
(* Inputs *)

TestNames == {<<"Contract Constants">>, <<"Basic API Registration">>}

Messages ==
    { <<"Insufficient stake">>,
      <<"Execution Reverted: ", "Insufficient stake">>,
      <<"network down">>,
      <<"Require failed">>,
      <<"expected transaction to revert">>,
      <<"call failed: ", "Expected transaction to revert", " but it succeeded">>,
      SucceededMessage }

\* What an action handed to runTest, or a promise, can raise.
Thrown == {Error(m) : m \in Messages} \cup {Nullish, Messageless}

\* Completions of an awaited promise.
Promises == {Return("receipt"), Return("undefined")} \cup {Throw(v) : v \in Thrown}

ExpectedMessages ==
    {Absent, Given(<<>>), Given(<<"insufficient stake">>),
     Given(<<"INSUFFICIENT STAKE">>), Given(<<"network down">>)}

Logs == [topic : AbiEvents \cup {"foreign", "malformed"}, data : 1..2]

RECURSIVE SeqsUpTo(_, _)
SeqsUpTo(S, n) ==
    IF n = 0 THEN {<<>>}
    ELSE LET shorter == SeqsUpTo(S, n - 1) IN
         shorter \cup {Append(q, x) : q \in shorter, x \in S}

EventNames == AbiEvents \cup {"Transfer"}

----------------------------------------------------------------------------
(* The harness alone: runTest invoked one call after the other *)

NoCall ==
    [op |-> "none", impl |-> "base", promise |-> Return("undefined"),
     expectedMessage |-> Absent, logs |-> <<>>, eventName |-> "", done |-> FALSE,
     out |-> Return("undefined"), warned |-> FALSE, found |-> UndefinedLog]
NoEnv == [contractAddress |-> FALSE, privateKey |-> FALSE]
NoChain == [nextApiId |-> 0, price |-> 0, totalCalls |-> 0, balance |-> 0]

NoRun == [k |-> 0, ip |-> 0, pending |-> {}, act |-> Return("undefined")]
NoTasks == <<>>
NoSteps == run = NoRun /\ tasks = NoTasks /\ results2 = NewResults
IdleRunner ==
    /\ phase = 0 /\ pc = "idle" /\ env = NoEnv /\ wiring = {}
    /\ chain = NoChain /\ testApiId = 0 /\ exitCode = -1
    /\ NoSteps

RunnerUnchanged ==
    UNCHANGED <<phase, pc, env, wiring, chain, testApiId, exitCode, run, tasks, results2>>

Init ==
    /\ results = NewResults
    /\ history = <<>>
    /\ last = NoCall
    /\ IdleRunner

\* `await this.runTest(testName, fn)` where `await fn()` completes as act.
Invoke(testName, body, act) ==
    /\ Len(history) < MaxTests
    /\ LET r == runTest(results, testName, act) IN
       /\ results' = r.results
       /\ history' = Append(history,
              [name |-> testName, body |-> body, act |-> act, out |-> r.out,
               before |-> results, after |-> r.results])
    /\ UNCHANGED last
    /\ RunnerUnchanged

\* fn resolves
RunPassing == \E n \in TestNames : Invoke(n, "resolves", Return("undefined"))

\* fn raises v
RunThrowing == \E n \in TestNames, v \in Thrown : Invoke(n, "raises", Throw(v))

\* fn is `async () => { this.assert(c, m) }`
RunAsserting ==
    \E n \in TestNames, c \in BOOLEAN, m \in Messages :
        Invoke(n, "asserts", assert(c, m))

\* fn is `async () => { await this.expectRevert(p, e) }` of the base harness
RunExpectRevert ==
    \E n \in TestNames, p \in Promises, e \in ExpectedMessages :
        Invoke(n, IF p.kind = "return" THEN "expectRevert of resolved"
                  ELSE "expectRevert of rejected",
               LET r == expectRevert(p, e) IN
               IF r.out.kind = "return" THEN Return("undefined") ELSE r.out)

\* the same with the override of phase 2
RunExpectRevertPhase2 ==
    \E n \in TestNames, p \in Promises, e \in ExpectedMessages :
        Invoke(n, IF p.kind = "return" THEN "expectRevert of resolved"
                  ELSE "expectRevert of rejected",
               LET r == expectRevertPhase2(p, e) IN
               IF r.out.kind = "return" THEN Return("undefined") ELSE r.out)

Next ==
    \/ RunPassing
    \/ RunThrowing
    \/ RunAsserting
    \/ RunExpectRevert
    \/ RunExpectRevertPhase2

Spec == Init /\ [][Next]_vars

----------------------------------------------------------------------------
(* The primitives called directly, on inputs drawn from the sets above *)

\* A call that has been set up and not made yet.
PendingExpectRevert(impl) ==
    {[op |-> "expectRevert", impl |-> impl, promise |-> p, expectedMessage |-> e,
      logs |-> <<>>, eventName |-> "", done |-> FALSE,
      out |-> Return("undefined"), warned |-> FALSE, found |-> UndefinedLog]
        : p \in Promises, e \in ExpectedMessages}

PendingFindEvent ==
    {[op |-> "findEvent", impl |-> "base", promise |-> Return("undefined"),
      expectedMessage |-> Absent,
      logs |-> logs, eventName |-> eventName, done |-> FALSE,
      out |-> Return("undefined"), warned |-> FALSE, found |-> UndefinedLog]
        : logs \in SeqsUpTo(Logs, MaxLogs), eventName \in EventNames}

InitCalls ==
    /\ results = NewResults
    /\ history = <<>>
    /\ last \in PendingExpectRevert("base") \cup PendingExpectRevert("phase2")
                  \cup PendingFindEvent
    /\ IdleRunner

CallsFrame == UNCHANGED <<results, history>> /\ RunnerUnchanged

CallExpectRevert ==
    /\ last.op = "expectRevert" /\ last.impl = "base" /\ ~last.done
    /\ LET r == expectRevert(last.promise, last.expectedMessage) IN
       last' = [last EXCEPT !.done = TRUE, !.out = r.out, !.warned = r.warned]
    /\ CallsFrame

CallExpectRevertPhase2 ==
    /\ last.op = "expectRevert" /\ last.impl = "phase2" /\ ~last.done
    /\ LET r == expectRevertPhase2(last.promise, last.expectedMessage) IN
       last' = [last EXCEPT !.done = TRUE, !.out = r.out, !.warned = r.warned]
    /\ CallsFrame

CallFindEvent ==
    /\ last.op = "findEvent" /\ ~last.done
    /\ last' = [last EXCEPT !.done = TRUE,
                            !.found = findEvent(last.logs, last.eventName)]
    /\ CallsFrame

NextCalls ==
    \/ CallExpectRevert
    \/ CallExpectRevertPhase2
    \/ CallFindEvent

SpecCalls == InitCalls /\ [][NextCalls]_vars

----------------------------------------------------------------------------
(* The chain seen through the contract binding (setup.js:11-31) *)

\* ethers.parseEther of the literals of the scripts, in units of 0.0005 ETH.
Eth_0_0005 == 1
Eth_0_001 == 2
Eth_0_002 == 4
Eth_0_05 == 100
Eth_0_1 == 200
Eth_0_15 == 300
Eth_0_2 == 400

MaxReceiptLogs == 1

\* A request to the RPC endpoint that fails rejects with an error.
RpcFailure == Error(<<"network down">>)
Rpc(ok) == IF ok THEN Return("value") ELSE Throw(RpcFailure)

\* The first step that raises ends the body; a body whose steps all complete
\* resolves.
RECURSIVE Steps(_)
Steps(steps) ==
    IF steps = <<>> THEN Return("undefined")
    ELSE IF Head(steps).kind = "throw" THEN Head(steps)
    ELSE Steps(Tail(steps))

Completed(steps) == Steps(steps).kind = "return"

\* A transaction: rejected when it is submitted (`await contract.f(...)`
\* raises), reverted (`await tx.wait()` raises) or mined.  A mined
\* transaction has the effect the contract gives it; the contract is the
\* system under test, so the effect is not assumed to be the right one.
FailedTxs == {[outcome |-> o, effect |-> "none"] : o \in {"rejected", "reverted"}}
FundTxs == FailedTxs \cup {[outcome |-> "mined", effect |-> "funded"]}
RegisterTxs == FailedTxs \cup
    {[outcome |-> "mined", effect |-> e] : e \in {"registered", "none"}}
PayTxs == FailedTxs \cup
    {[outcome |-> "mined", effect |-> e] :
        e \in {"value counted", "value uncounted", "price counted",
               "nothing counted", "nothing uncounted"}}

TxError(tx) ==
    IF tx.outcome = "rejected"
    THEN Error(<<"Execution Reverted: ", "Insufficient stake">>)
    ELSE Error(<<"transaction execution reverted">>)

\* `const tx = await contract.f(...); await tx.wait()`
SendAndWait(tx) ==
    IF tx.outcome = "mined" THEN Return("receipt") ELSE Throw(TxError(tx))

\* registerAPI(endpoint, description, pricePerCall) payable (setup.js:21)
RegisterEffect(c, tx) ==
    IF tx.outcome = "mined" /\ tx.effect = "registered"
    THEN [c EXCEPT !.nextApiId = @ + 1]
    ELSE c

\* payForAPICall(apiId) payable (setup.js:22): what reaches the provider and
\* whether the call is counted.
PayEffect(c, tx, value) ==
    IF tx.outcome # "mined" THEN c
    ELSE [c EXCEPT
            !.balance = @ + (CASE tx.effect \in {"value counted", "value uncounted"} -> value
                               [] tx.effect = "price counted" -> c.price
                               [] OTHER -> 0),
            !.totalCalls = @ + (IF tx.effect \in {"value counted", "price counted",
                                                  "nothing counted"}
                                THEN 1 ELSE 0)]

ReceiptLogs == SeqsUpTo([topic : AbiEvents \cup {"foreign", "malformed"}, data : {1}],
                        MaxReceiptLogs)

\* What a scenario body leaves: its completion, the chain, the outcomes of the
\* transactions it sent and the errors its inner catch blocks swallowed.
Body(act, c, txs, swallowed) ==
    [act |-> act, chain |-> c, txs |-> txs, swallowed |-> swallowed]

----------------------------------------------------------------------------
(* Phase 1 scenarios (phase1.js) *)

ContractConstants ==
    [minStake : {Eth_0_1, Eth_0_05},
     slashPercentage : {10, 5},
     withdrawalDelay : {7 * 24 * 60 * 60, 24 * 60 * 60}]

\* testContractConstants, the function given to runTest (phase1.js:31-74)
testContractConstants(c, io) ==
    Body(Steps(<<
            Rpc(io.rpcFailAt # 1),
            assert(io.constants.minStake = Eth_0_1, <<"Min stake should be 0.1 ETH">>),
            assert(io.constants.slashPercentage = 10, <<"Slash percentage should be 10%">>),
            assert(io.constants.withdrawalDelay = 7 * 24 * 60 * 60,
                   <<"Withdrawal delay should be 7 days">>),
            assert(c.nextApiId >= 1, <<"Next API ID should be at least 1">>),
            Rpc(io.rpcFailAt # 2),
            IF io.balance2 < Eth_0_1 THEN SendAndWait(io.fund) ELSE Return("undefined"),
            assert(io.balance1 > Eth_0_2,
                   <<"Wallet 1 needs at least 0.2 ETH for testing">>) >>),
         c, <<>>, <<>>)

Endpoint1 == "https://api.weather.com/v1/current"
Description1 == "Real-time weather data API"

RegisteredApi ==
    [endpoint |-> Endpoint1, description |-> Description1, pricePerCall |-> Eth_0_001,
     stake |-> Eth_0_15, provider |-> "wallet1", active |-> TRUE,
     totalCalls |-> 0, successfulCalls |-> 0]

\* The API the contract reports after the registration: the one that was
\* registered, or one that differs from it in a field.
Phase1Apis ==
    {RegisteredApi,
     [RegisteredApi EXCEPT !.endpoint = ""],
     [RegisteredApi EXCEPT !.description = ""],
     [RegisteredApi EXCEPT !.pricePerCall = 0],
     [RegisteredApi EXCEPT !.stake = Eth_0_1],
     [RegisteredApi EXCEPT !.provider = "wallet2"],
     [RegisteredApi EXCEPT !.active = FALSE],
     [RegisteredApi EXCEPT !.totalCalls = 1],
     [RegisteredApi EXCEPT !.successfulCalls = 1]}

\* testBasicAPIRegistration, the function given to runTest (phase1.js:78-155)
testBasicAPIRegistration(c, io) ==
    LET reached == Completed(<<Rpc(io.rpcFailAt # 1)>>)
        c1 == IF reached THEN RegisterEffect(c, io.tx) ELSE c
        event == findEvent(io.logs, "APIRegistered")
    IN  Body(Steps(<<
                Rpc(io.rpcFailAt # 1),
                SendAndWait(io.tx),
                assert(event # UndefinedLog, <<"APIRegistered event should be emitted">>),
                Rpc(io.rpcFailAt # 2),
                assert(io.api.endpoint = Endpoint1, <<"Endpoint should match">>),
                assert(io.api.description = Description1, <<"Description should match">>),
                assert(io.api.pricePerCall = Eth_0_001, <<"Price should match">>),
                assert(io.api.stake = Eth_0_15, <<"Stake should match">>),
                assert(io.api.provider = "wallet1", <<"Provider should match">>),
                assert(io.api.active = TRUE, <<"API should be active">>),
                assert(io.api.totalCalls = 0, <<"Total calls should be 0">>),
                assert(io.api.successfulCalls = 0, <<"Successful calls should be 0">>),
                Rpc(io.rpcFailAt # 3),
                assert(c1.nextApiId = c.nextApiId + 1, <<"Next API ID should increment">>),
                assert(io.stakeAfter = io.stakeBefore + Eth_0_15,
                       <<"Provider stake should increase">>) >>),
             c1, IF reached THEN <<io.tx.outcome>> ELSE <<>>, <<>>)

----------------------------------------------------------------------------
(* Phase 2 scenarios (phase2.js) *)

ValidEndpoint == "https://api.valid.com/v1/test"

Phase2Apis ==
    [endpoint : {ValidEndpoint, ""},
     pricePerCall : {Eth_0_002, Eth_0_001},
     active : BOOLEAN]

\* What the catch block of a "should fail" try block receives: the error of
\* the transaction, or the error the try block raises itself after a
\* transaction that was mined.
Caught(tx, message) ==
    IF SendAndWait(tx).kind = "return" THEN Error(message) ELSE SendAndWait(tx).err

\* testInsufficientStake, the function given to runTest (phase2.js:31-83).
\* The try block raises when the transaction is rejected, reverts, or is
\* mined (line 58); the catch block (lines 60-73) only logs.  The check
\* that follows compares nextApiId with the literal 2n (line 80).
testInsufficientStake(c, io) ==
    LET c1 == RegisterEffect(c, io.tx) IN
    Body(Steps(<<
            Rpc(io.rpcFailAt # 1),
            assert(c1.nextApiId = 2,
                   <<"Next API ID should not change after failed registration">>) >>),
         c1, <<io.tx.outcome>>,
         <<Caught(io.tx, <<"Transaction should have reverted due to insufficient stake">>)>>)

\* testInvalidParameters, the function given to runTest (phase2.js:87-155).
testInvalidParameters(c, io) ==
    LET c1 == RegisterEffect(c, io.tx1)
        c2 == RegisterEffect(c1, io.tx2)
        c3 == RegisterEffect(c2, io.tx3)
        event == findEvent(io.logs, "APIRegistered")
    IN  Body(Steps(<<
                SendAndWait(io.tx3),
                assert(event # UndefinedLog,
                       <<"APIRegistered event should be emitted for valid registration">>),
                Rpc(io.rpcFailAt # 1),
                assert(io.api.endpoint = ValidEndpoint, <<"Endpoint should match">>),
                assert(io.api.pricePerCall = Eth_0_002, <<"Price should match">>),
                assert(io.api.active = TRUE, <<"API should be active">>) >>),
             c3, <<io.tx1.outcome, io.tx2.outcome, io.tx3.outcome>>,
             <<Caught(io.tx1, <<"Empty endpoint should have been rejected">>),
               Caught(io.tx2, <<"Zero price should have been rejected">>)>>)

----------------------------------------------------------------------------
(* Phase 3 steps and scenarios (phase3.js) *)

\* setupTestEnvironment (phase3.js:36-64), called outside runTest
setupTestEnvironment(io) ==
    Steps(<<
        Rpc(io.rpcFailAt # 1),
        IF io.balance2 < Eth_0_1 THEN SendAndWait(io.fund) ELSE Return("undefined"),
        IF io.balance2 < Eth_0_1 THEN Rpc(io.rpcFailAt # 2) ELSE Return("undefined") >>)

\* setupTestAPI (phase3.js:66-81), called outside runTest: this.testApiId
\* becomes 1n only when nextApiId > 1n, and stays null (0 here) otherwise.
setupTestAPI(c, tid, io) ==
    LET read == Rpc(io.rpcFailAt # 1) IN
    [out |-> Steps(<<read,
                     IF c.nextApiId > 1 THEN Rpc(io.rpcFailAt # 2) ELSE Return("undefined")>>),
     testApiId |-> IF read.kind = "return" /\ c.nextApiId > 1 THEN 1 ELSE tid]

\* this.contract1.getAPI(this.testApiId): a null id is refused by the binding
\* before any request is made.
GetApi(tid, ok) ==
    IF tid = 0 THEN Throw(Error(<<"invalid BigNumberish value">>)) ELSE Rpc(ok)

\* testSuccessfulPayment without the check of totalCalls (line 113).
testSuccessfulPaymentNoCallCheck(c, tid, io) ==
    LET before == <<Rpc(io.rpcFailAt # 1), GetApi(tid, io.rpcFailAt # 2),
                    Rpc(io.rpcFailAt # 3)>>
        reached == Completed(before)
        c1 == IF reached THEN PayEffect(c, io.tx, c.price) ELSE c
    IN  Body(Steps(before \o <<
                SendAndWait(io.tx),
                Rpc(io.rpcFailAt # 4),
                assert(c1.balance - c.balance = c.price,
                       <<"Provider should receive payment">>),
                Rpc(io.rpcFailAt # 5) >>),
             c1, IF reached THEN <<io.tx.outcome>> ELSE <<>>, <<>>)

\* testSuccessfulPayment, the function given to runTest (phase3.js:84-116)
testSuccessfulPayment(c, tid, io) ==
    LET before == <<Rpc(io.rpcFailAt # 1), GetApi(tid, io.rpcFailAt # 2),
                    Rpc(io.rpcFailAt # 3)>>
        reached == Completed(before)
        c1 == IF reached THEN PayEffect(c, io.tx, c.price) ELSE c
    IN  Body(Steps(before \o <<
                SendAndWait(io.tx),
                Rpc(io.rpcFailAt # 4),
                assert(c1.balance - c.balance = c.price,
                       <<"Provider should receive payment">>),
                Rpc(io.rpcFailAt # 5),
                assert(c1.totalCalls = c.totalCalls + 1, <<"Calls should increment">>) >>),
             c1, IF reached THEN <<io.tx.outcome>> ELSE <<>>, <<>>)

\* testSimpleOverpayment without the try/catch of lines 132-150.
testSimpleOverpaymentUncaught(c, tid, io) ==
    LET before == <<GetApi(tid, io.rpcFailAt # 1), Rpc(io.rpcFailAt # 2)>>
        reached == Completed(before)
        overpayment == c.price + Eth_0_0005
        c1 == IF reached THEN PayEffect(c, io.tx, overpayment) ELSE c
    IN  Body(Steps(before \o <<
                SendAndWait(io.tx),
                Rpc(io.rpcFailAt # 3),
                assert(c1.balance - c.balance = overpayment,
                       <<"Provider should receive full overpayment">>) >>),
             c1, IF reached THEN <<io.tx.outcome>> ELSE <<>>, <<>>)

\* testSimpleOverpayment, the function given to runTest (phase3.js:120-151):
\* everything after the two reads is inside a try whose catch only logs.
testSimpleOverpayment(c, tid, io) ==
    LET before == <<GetApi(tid, io.rpcFailAt # 1), Rpc(io.rpcFailAt # 2)>>
        reached == Completed(before)
        overpayment == c.price + Eth_0_0005
        c1 == IF reached THEN PayEffect(c, io.tx, overpayment) ELSE c
        tried == Steps(<<
                SendAndWait(io.tx),
                Rpc(io.rpcFailAt # 3),
                assert(c1.balance - c.balance = overpayment,
                       <<"Provider should receive full overpayment">>) >>)
    IN  Body(Steps(before),
             c1, IF reached THEN <<io.tx.outcome>> ELSE <<>>,
             IF reached /\ tried.kind = "throw" THEN <<tried.err>> ELSE <<>>)

----------------------------------------------------------------------------
(* The entry points: main() of phase1.js, phase2.js and phase3.js *)

\* The contract numbers the APIs from 1: nextApiId is 1 on a fresh deployment.
Chains ==
    [nextApiId : 1..MaxApiId, price : {Eth_0_001, Eth_0_002},
     totalCalls : 0..1, balance : {0}]

InitPhase ==
    /\ results = NewResults
    /\ history = <<>>
    /\ last = [op |-> "none", out |-> Return("undefined")]
    /\ phase \in 1..3
    /\ pc = "main"
    /\ env \in [contractAddress : BOOLEAN, privateKey : BOOLEAN]
    /\ wiring = {}
    /\ chain \in Chains
    \* only phase 3 reads the price and the calls of API 1
    /\ phase # 3 => chain.price = Eth_0_001 /\ chain.totalCalls = 0
    /\ NoSteps
    /\ testApiId = 0
    /\ exitCode = -1

\* setupWallets creating the provider and the wallet before it tests the address.
setupWalletsLateCheck(e) ==
    IF ~e.privateKey
    THEN [wiring |-> {"provider"}, out |-> Throw(Error(<<"invalid private key">>))]
    ELSE IF ~e.contractAddress
    THEN [wiring |-> {"provider", "wallet1"},
          out |-> Throw(Error(<<"Please set CONTRACT_ADDRESS in .env file">>))]
    ELSE [wiring |-> {"provider", "wallet1", "contract1", "wallet2", "contract2"},
          out |-> Return("undefined")]

\* setupWallets (setup.js:44-60).  A missing CONTRACT_ADDRESS raises before
\* anything is created (lines 45-47); new ethers.Wallet raises on a missing
\* PRIVATE_KEY (line 50), after the provider was created.
setupWallets(e) ==
    IF ~e.contractAddress
    THEN [wiring |-> {},
          out |-> Throw(Error(<<"Please set CONTRACT_ADDRESS in .env file">>))]
    ELSE IF ~e.privateKey
    THEN [wiring |-> {"provider"}, out |-> Throw(Error(<<"invalid private key">>))]
    ELSE [wiring |-> {"provider", "wallet1", "contract1", "wallet2", "contract2"},
          out |-> Return("undefined")]

\* An exit status that reports recorded failures.
ExitStatusByFailures(res) == IF res.failed > 0 THEN 1 ELSE 0

\* The status of a process whose main() returned: nothing sets
\* process.exitCode, whatever the results (phase1.js:160-177).
ExitStatus(res) == 0

\* The top-level step completed as out: an error goes to the catch block of
\* main(), which calls process.exit(1)
\* (phase1.js:164-172, phase2.js:189-196, phase3.js:159-162).
Continue(op, out, nextPc) ==
    /\ last' = [op |-> op, out |-> out]
    /\ IF out.kind = "throw"
       THEN pc' = "exited" /\ exitCode' = 1
       ELSE pc' = nextPc /\ UNCHANGED exitCode

\* `new FoundationTests()` and its like (phase1.js:162, phase2.js:186,
\* phase3.js:157): TestBase.constructor (setup.js:34-42), then
\* this.testApiId = null in phase 3 (phase3.js:9).
Construct ==
    /\ pc = "main"
    /\ results' = NewResults
    /\ LET w == setupWallets(env) IN
       /\ wiring' = w.wiring
       /\ Continue("construct", w.out,
                   IF phase = 3 THEN "setupTestEnvironment" ELSE "scenario1")
    /\ UNCHANGED <<history, phase, env, chain, testApiId, run, tasks, results2>>

\* `await this.runTest(testName, fn)` where the body fn completes as b.act and
\* leaves the chain as b.chain.
Scenario(testName, b, nextPc) ==
    /\ LET r == runTest(results, testName, b.act) IN
       /\ results' = r.results
       /\ history' = Append(history,
              [name |-> testName, act |-> b.act, out |-> r.out,
               before |-> results, after |-> r.results,
               chainBefore |-> chain, chainAfter |-> b.chain,
               txs |-> b.txs, swallowed |-> b.swallowed])
       /\ Continue("runTest", r.out, nextPc)
    /\ chain' = b.chain
    /\ UNCHANGED <<phase, env, wiring, testApiId, run, tasks, results2>>

Scenario1Name ==
    CASE phase = 1 -> <<"Contract Constants and Setup">>
      [] phase = 2 -> <<"Registration Failure - Insufficient Stake">>
      [] OTHER -> <<"Successful Payment Flow">>

Scenario2Name ==
    CASE phase = 1 -> <<"Basic API Registration">>
      [] phase = 2 -> <<"Registration Failure - Invalid Parameters">>
      [] OTHER -> <<"Simple Overpayment Test">>

\* runFoundationTests: await this.testContractConstants() (phase1.js:15)
Phase1ContractConstants ==
    /\ phase = 1 /\ pc = "scenario1"
    /\ \E io \in [constants : ContractConstants, balance1 : {Eth_0_2, Eth_0_2 + 1},
                  balance2 : {0, Eth_0_1}, fund : FundTxs, rpcFailAt : 0..2] :
          Scenario(Scenario1Name, testContractConstants(chain, io), "scenario2")

\* runFoundationTests: await this.testBasicAPIRegistration() (phase1.js:18)
Phase1BasicAPIRegistration ==
    /\ phase = 1 /\ pc = "scenario2"
    /\ \E io \in [tx : RegisterTxs, logs : ReceiptLogs, api : Phase1Apis,
                  stakeBefore : {0}, stakeAfter : {0, Eth_0_15}, rpcFailAt : 0..3] :
          Scenario(Scenario2Name, testBasicAPIRegistration(chain, io), "printResults")

\* runRegistrationTests: await this.testInsufficientStake() (phase2.js:15)
Phase2InsufficientStake ==
    /\ phase = 2 /\ pc = "scenario1"
    /\ \E io \in [tx : RegisterTxs, rpcFailAt : 0..1] :
          Scenario(Scenario1Name, testInsufficientStake(chain, io), "scenario2")

\* runRegistrationTests: await this.testInvalidParameters() (phase2.js:18)
Phase2InvalidParameters ==
    /\ phase = 2 /\ pc = "scenario2"
    /\ \E io \in [tx1 : RegisterTxs, tx2 : RegisterTxs, tx3 : RegisterTxs,
                  logs : ReceiptLogs, api : Phase2Apis, rpcFailAt : 0..1] :
          Scenario(Scenario2Name, testInvalidParameters(chain, io), "printResults")

\* runPaymentTests: await this.setupTestEnvironment() (phase3.js:16)
Phase3SetupTestEnvironment ==
    /\ phase = 3 /\ pc = "setupTestEnvironment"
    /\ \E io \in [balance2 : {0, Eth_0_1}, fund : FundTxs, rpcFailAt : 0..2] :
          Continue("setupTestEnvironment", setupTestEnvironment(io), "setupTestAPI")
    /\ UNCHANGED <<results, history, phase, env, wiring, chain, testApiId,
                 run, tasks, results2>>

\* runPaymentTests: await this.setupTestAPI() (phase3.js:17)
Phase3SetupTestAPI ==
    /\ phase = 3 /\ pc = "setupTestAPI"
    /\ \E io \in [rpcFailAt : 0..2] :
          LET r == setupTestAPI(chain, testApiId, io) IN
          /\ testApiId' = r.testApiId
          /\ Continue("setupTestAPI", r.out, "scenario1")
    /\ UNCHANGED <<results, history, phase, env, wiring, chain, run, tasks, results2>>

\* runPaymentTests: await this.testSuccessfulPayment() (phase3.js:20)
Phase3SuccessfulPayment ==
    /\ phase = 3 /\ pc = "scenario1"
    /\ \E io \in [tx : PayTxs, rpcFailAt : 0..5] :
          Scenario(Scenario1Name, testSuccessfulPayment(chain, testApiId, io), "scenario2")

\* runPaymentTests: await this.testSimpleOverpayment() (phase3.js:23)
Phase3SimpleOverpayment ==
    /\ phase = 3 /\ pc = "scenario2"
    /\ \E io \in [tx : PayTxs, rpcFailAt : 0..3] :
          Scenario(Scenario2Name, testSimpleOverpayment(chain, testApiId, io), "printResults")

\* this.printResults() and the closing messages, after which main() returns
\* and the process ends
\* (setup.js:110-118; phase1.js:20-27, phase2.js:20-27, phase3.js:25-33).
PrintResults ==
    /\ pc = "printResults"
    /\ pc' = "exited"
    /\ exitCode' = ExitStatus(results)
    /\ last' = [op |-> "printResults", out |-> Return("undefined")]
    /\ UNCHANGED <<results, history, phase, env, wiring, chain, testApiId,
                 run, tasks, results2>>

NextPhase ==
    \/ Construct
    \/ Phase1ContractConstants
    \/ Phase1BasicAPIRegistration
    \/ Phase2InsufficientStake
    \/ Phase2InvalidParameters
    \/ Phase3SetupTestEnvironment
    \/ Phase3SetupTestAPI
    \/ Phase3SuccessfulPayment
    \/ Phase3SimpleOverpayment
    \/ PrintResults

SpecPhase == InitPhase /\ [][NextPhase]_vars

----------------------------------------------------------------------------
(* The phase runners one await at a time.  A script lists, in source       *)
(* order, the statements of an async function that suspend or can raise,   *)
(* each with its line; what the statements compute is left to the          *)
(* operators above, here every outcome of a statement is possible.         *)

Step(op, tx, line) == [op |-> op, tx |-> tx, line |-> line, skip |-> 0, catch |-> 0]
\* `const v = await <view call or getBalance>`
Read(line) == Step("read", "", line)
\* `const tx = await contract.f(...)` or `await wallet.sendTransaction(...)`
Submit(tx, line) == Step("submit", tx, line)
\* `await tx.wait()`
Wait(tx, line) == Step("wait", tx, line)
\* `this.assert(c, m)`
Check(line) == Step("assert", "", line)
\* `throw new Error(m)`
Raise(line) == Step("throw", "", line)
\* `if (c) { body }`: the body is skipped when c is false
If(line, body) == <<[Step("if", "", line) EXCEPT !.skip = Len(body)]>> \o body
\* `try { body } catch (error) { <logging> }`: a statement of the body that
\* raises continues after the block
Try(body) == [i \in 1..Len(body) |-> [body[i] EXCEPT !.catch = Len(body) - i + 1]]

\* phase1.js:32-73
testContractConstantsSteps ==
    <<Read(33), Read(34), Read(35), Read(36), Read(37), Read(38),
      Check(49), Check(50), Check(51), Check(52), Read(55), Read(56)>>
    \o If(63, <<Submit("fundTx", 65), Wait("fundTx", 69)>>)
    \o <<Check(73)>>

\* testBasicAPIRegistration with `await tx.wait()` (line 108) left out.
testBasicAPIRegistrationStepsNoWait ==
    <<Read(90), Read(91), Submit("tx", 98), Check(114), Read(120),
      Check(133), Check(134), Check(135), Check(136), Check(137), Check(138),
      Check(139), Check(140), Read(143), Read(144), Check(150), Check(151)>>

\* phase1.js:79-151
testBasicAPIRegistrationSteps ==
    <<Read(90), Read(91), Submit("tx", 98), Wait("tx", 108), Check(114), Read(120),
      Check(133), Check(134), Check(135), Check(136), Check(137), Check(138),
      Check(139), Check(140), Read(143), Read(144), Check(150), Check(151)>>

\* phase2.js:32-80
testInsufficientStakeSteps ==
    Try(<<Submit("tx", 44), Wait("tx", 55), Raise(58)>>)
    \o <<Read(76), Check(80)>>

\* phase2.js:88-152
testInvalidParametersSteps ==
    Try(<<Submit("tx1", 95), Wait("tx1", 103), Raise(104)>>)
    \o Try(<<Submit("tx2", 113), Wait("tx2", 121), Raise(122)>>)
    \o <<Submit("validTx", 130), Wait("validTx", 137), Check(143), Read(149),
         Check(150), Check(151), Check(152)>>

\* phase3.js:36-64
setupTestEnvironmentSteps ==
    <<Read(39), Read(40)>>
    \o If(47, <<Submit("fundTx", 51), Wait("fundTx", 57), Read(59)>>)

\* phase3.js:66-81
setupTestAPISteps == <<Read(69)>> \o If(72, <<Read(74)>>)

\* phase3.js:85-116
testSuccessfulPaymentSteps ==
    <<Read(87), Read(90), Read(95), Submit("paymentTx", 99), Wait("paymentTx", 103),
      Read(107), Check(110), Read(112), Check(113)>>

\* phase3.js:121-151
testSimpleOverpaymentSteps ==
    <<Read(123), Read(130)>>
    \o Try(<<Submit("overpayTx", 133), Wait("overpayTx", 137), Read(140), Check(144)>>)

\* A scenario: `await this.runTest(name, async () => { steps })`
Recorded(name, steps) == [name |-> name, steps |-> steps, recorded |-> TRUE]
\* A function awaited by the runner outside runTest
Unrecorded(name, steps) == [name |-> name, steps |-> steps, recorded |-> FALSE]

\* runFoundationTests (phase1.js:15-18), runRegistrationTests
\* (phase2.js:15-18), runPaymentTests (phase3.js:16-23): the awaited calls,
\* in order.
Program(ph) ==
    CASE ph = 1 ->
           <<Recorded(<<"Contract Constants and Setup">>, testContractConstantsSteps),
             Recorded(<<"Basic API Registration">>, testBasicAPIRegistrationSteps)>>
      [] ph = 2 ->
           <<Recorded(<<"Registration Failure - Insufficient Stake">>,
                      testInsufficientStakeSteps),
             Recorded(<<"Registration Failure - Invalid Parameters">>,
                      testInvalidParametersSteps)>>
      [] ph = 3 ->
           <<Unrecorded(<<"setupTestEnvironment">>, setupTestEnvironmentSteps),
             Unrecorded(<<"setupTestAPI">>, setupTestAPISteps),
             Recorded(<<"Successful Payment Flow">>, testSuccessfulPaymentSteps),
             Recorded(<<"Simple Overpayment Test">>, testSimpleOverpaymentSteps)>>

InitSteps ==
    /\ results = NewResults
    /\ history = <<>>
    /\ last = NoCall
    /\ phase \in 1..3
    /\ pc = "main"
    /\ env = NoEnv /\ wiring = {} /\ chain = NoChain /\ testApiId = 0
    /\ exitCode = -1
    /\ NoSteps

StepsFrame == UNCHANGED <<last, phase, env, wiring, chain, testApiId, tasks, results2>>

\* the function being executed, and the statement it is suspended at
Script == Program(phase)[run.k]
Inside == pc = "main" /\ run.k >= 1 /\ run.ip \in 1..Len(Script.steps)
Instr == Script.steps[run.ip]
AtOp(op) == Inside /\ Instr.op = op

Proceed(r) ==
    /\ run' = r
    /\ UNCHANGED <<results, history, pc, exitCode>>
    /\ StepsFrame

\* the statement completes normally
Done(pending) == [run EXCEPT !.ip = @ + 1, !.pending = pending]
\* the statement raises err: control goes to the enclosing catch, or the
\* function ends with err
Raised(err, pending) ==
    IF Instr.catch > 0
    THEN [run EXCEPT !.ip = @ + Instr.catch, !.pending = pending]
    ELSE [run EXCEPT !.ip = Len(Script.steps) + 1, !.pending = pending,
                     !.act = Throw(err)]

\* the runner calls its next function, once the previous await has settled
StartScript ==
    /\ pc = "main" /\ run.ip = 0
    /\ run.k < Len(Program(phase))
    /\ Proceed([run EXCEPT !.k = @ + 1, !.ip = 1, !.act = Return("undefined")])

StepRead ==
    /\ AtOp("read")
    /\ \E ok \in BOOLEAN :
          Proceed(IF ok THEN Done(run.pending) ELSE Raised(RpcFailure, run.pending))

\* the node accepts the transaction, which is then pending, or rejects it
StepSubmit ==
    /\ AtOp("submit")
    /\ \E accepted \in BOOLEAN :
          Proceed(IF accepted
                  THEN Done(run.pending \cup {Instr.tx})
                  ELSE Raised(TxError([outcome |-> "rejected"]), run.pending))

\* the transaction is mined: wait() resolves with the receipt, or raises
\* when the transaction reverted
StepWait ==
    /\ AtOp("wait")
    /\ \E mined \in BOOLEAN :
          LET pending == run.pending \ {Instr.tx} IN
          Proceed(IF mined
                  THEN Done(pending)
                  ELSE Raised(TxError([outcome |-> "reverted"]), pending))

StepAssert ==
    /\ AtOp("assert")
    /\ \E condition \in BOOLEAN :
          LET a == assert(condition, <<"assertion failed">>) IN
          Proceed(IF a.kind = "return"
                  THEN Done(run.pending)
                  ELSE Raised(a.err, run.pending))

StepThrow ==
    /\ AtOp("throw")
    /\ Proceed(Raised(Error(<<"should have failed">>), run.pending))

StepIf ==
    /\ AtOp("if")
    /\ \E condition \in BOOLEAN :
          Proceed([run EXCEPT !.ip = @ + 1 + (IF condition THEN 0 ELSE Instr.skip)])

\* the function has ended: runTest records a scenario (setup.js:62-76); an
\* error of a function called outside runTest reaches main(), which exits
\* with status 1 (phase3.js:159-162)
EndScript ==
    /\ pc = "main" /\ run.k >= 1 /\ run.ip = Len(Script.steps) + 1
    /\ run' = [run EXCEPT !.ip = 0]
    /\ IF Script.recorded
       THEN LET r == runTest(results, Script.name, run.act) IN
            /\ results' = r.results
            /\ history' = Append(history,
                   [name |-> Script.name, act |-> run.act, out |-> r.out,
                    before |-> results, after |-> r.results])
            /\ UNCHANGED <<pc, exitCode>>
       ELSE /\ UNCHANGED <<results, history>>
            /\ IF run.act.kind = "throw"
               THEN pc' = "exited" /\ exitCode' = 1
               ELSE UNCHANGED <<pc, exitCode>>
    /\ StepsFrame

NextSteps ==
    \/ StartScript
    \/ StepRead
    \/ StepSubmit
    \/ StepWait
    \/ StepAssert
    \/ StepThrow
    \/ StepIf
    \/ EndScript

SpecSteps == InitSteps /\ [][NextSteps]_vars

----------------------------------------------------------------------------
(* runTest invocations in flight at once, on two harness instances.  An    *)
(* invocation suspends at `await testFunction()` (setup.js:66); what       *)
(* follows the await, in the try or in the catch, runs to its end without  *)
(* suspending, since the runtime runs one continuation at a time.          *)

TaskName(t) == <<"test ", ToString(t)>>
TaskActs == {Return("undefined"), Throw(Error(<<"network down">>)), Throw(Nullish)}
Harnesses == {1, 2}
ResultsOf(h) == IF h = 1 THEN results ELSE results2

\* two instances just constructed (setup.js:35-39), and the calls to come
InitConcurrent ==
    /\ results = NewResults
    /\ results2 = NewResults
    /\ history = <<>>
    /\ last = NoCall
    /\ tasks \in [1..MaxTasks -> [harness : Harnesses, act : TaskActs, state : {"idle"}]]
    /\ run = NoRun
    /\ phase = 0 /\ pc = "idle" /\ env = NoEnv /\ wiring = {}
    /\ chain = NoChain /\ testApiId = 0 /\ exitCode = -1

ConcurrentFrame ==
    UNCHANGED <<last, phase, pc, env, wiring, chain, testApiId, exitCode, run>>

\* runTest is called: it logs, calls testFunction and suspends at the await
\* (setup.js:62-66)
StartTask ==
    \E t \in 1..MaxTasks :
        /\ tasks[t].state = "idle"
        /\ tasks' = [tasks EXCEPT ![t].state = "awaiting"]
        /\ UNCHANGED <<results, results2, history>>
        /\ ConcurrentFrame

\* the awaited action settles and runTest resumes to its end (setup.js:67-75)
ResumeTask ==
    \E t \in 1..MaxTasks :
        /\ tasks[t].state = "awaiting"
        /\ LET h == tasks[t].harness
               r == runTest(ResultsOf(h), TaskName(t), tasks[t].act)
           IN  /\ results' = IF h = 1 THEN r.results ELSE results
               /\ results2' = IF h = 2 THEN r.results ELSE results2
               /\ history' = Append(history,
                      [task |-> t, harness |-> h, name |-> TaskName(t),
                       act |-> tasks[t].act, out |-> r.out,
                       before |-> ResultsOf(h), after |-> r.results])
        /\ tasks' = [tasks EXCEPT ![t].state = "done"]
        /\ ConcurrentFrame

NextConcurrent ==
    \/ StartTask
    \/ ResumeTask

SpecConcurrent == InitConcurrent /\ [][NextConcurrent]_vars

----------------------------------------------------------------------------
(* Claims about runTest, checked under Spec *)

IsPrefix(s, t) == Len(s) <= Len(t) /\ SubSeq(t, 1, Len(s)) = s

Records == {history[i] : i \in 1..Len(history)}

\* The entry runTest pushes for a failure (setup.js:73).
FailureEntry(h) == h.name \o <<": ">> \o h.act.err.message

\* C1: after any sequence of runTest invocations, passed + failed is the
\* number of invocations that have settled, errors holds exactly failed
\* entries, no counter has decreased and no entry of errors was removed or
\* changed.
C1_CountsEqualInvocations ==
    /\ results.passed + results.failed = Len(history)
    /\ Len(results.errors) = results.failed
    /\ \A h \in Records :
          /\ h.after.passed >= h.before.passed
          /\ h.after.failed >= h.before.failed
          /\ IsPrefix(h.before.errors, h.after.errors)
          /\ IsPrefix(h.after.errors, results.errors)

\* C2: an action that resolves makes runTest return true and count one more
\* passed test, leaving failed and errors alone; an action that raises, for
\* any reason, makes runTest return false and count one more failed test,
\* leaving passed alone.
C2_OutcomeFollowsAction ==
    \A h \in Records :
        /\ h.act.kind = "return" =>
              /\ h.out = Return("true")
              /\ h.after.passed = h.before.passed + 1
              /\ h.after.failed = h.before.failed
              /\ h.after.errors = h.before.errors
        /\ h.act.kind = "throw" =>
              /\ h.out = Return("false")
              /\ h.after.failed = h.before.failed + 1
              /\ h.after.passed = h.before.passed

RaisedError(h) == h.act.kind = "throw" /\ h.act.err.tag = "Error"
Counted(h) == h.out = Return("false")

\* C3: when the action raises an error with message m, runTest does not
\* propagate it and appends exactly "<name>: <m>" at the end of errors, so
\* errors lists the failed tests in the order they were invoked.
C3_FailureAppendedInOrder ==
    LET failures == SelectSeq(history, Counted) IN
    /\ \A h \in Records : RaisedError(h) =>
          /\ h.out = Return("false")
          /\ h.after.errors = Append(h.before.errors, FailureEntry(h))
    /\ Len(results.errors) = Len(failures)
    /\ \A k \in 1..Len(failures) : RaisedError(failures[k]) =>
          results.errors[k] = FailureEntry(failures[k])

\* Two tests of different names and messages have failed, one after the other.
C3_Witness ==
    /\ Len(history) >= 2
    /\ RaisedError(history[1]) /\ RaisedError(history[2])
    /\ history[1].name # history[2].name
    /\ history[1].act.err.message # history[2].act.err.message
    /\ Len(results.errors) = 2

\* C5 (inside runTest): expectRevert of a promise that resolved raises the
\* error "Expected transaction to revert but it succeeded", whatever the
\* resolved value and the expected message, and runTest records a failed test.
C5_ResolvedPromiseFailsTest ==
    \A h \in Records : h.body = "expectRevert of resolved" =>
        /\ h.act = Throw(Error(SucceededMessage))
        /\ h.out = Return("false")
        /\ h.after.failed = h.before.failed + 1
        /\ h.after.passed = h.before.passed
        /\ h.after.errors = Append(h.before.errors, h.name \o <<": ">> \o SucceededMessage)

C5_Witness ==
    \E h \in Records :
        /\ h.body = "expectRevert of resolved"
        /\ h.out = Return("false")
        /\ results.failed >= 1

----------------------------------------------------------------------------
(* Claims about expectRevert and findEvent, checked under SpecCalls *)

\* C4: expectRevert of a promise that rejects with an error carrying a
\* message reports success, for every message and every expected message,
\* given or absent, in the base harness and in the override of phase 2.
C4_RejectionAlwaysSucceeds ==
    (last.op = "expectRevert" /\ last.done /\ last.promise.kind = "throw"
        /\ last.promise.err.tag = "Error")
    => last.out.kind = "return"

\* The log decodes against the ABI to an event of that name.
DecodesTo(log, eventName) == log.topic \in AbiEvents /\ log.topic = eventName

\* C6: findEvent returns the first log, in receipt order, that decodes to an
\* event named eventName, and the absent value when no log does; a log whose
\* decoding raises is skipped.
C6_FirstMatchingLog ==
    (last.op = "findEvent" /\ last.done) =>
        LET hits == {i \in 1..Len(last.logs) : DecodesTo(last.logs[i], last.eventName)} IN
        IF hits = {}
        THEN last.found = UndefinedLog
        ELSE \E i \in hits :
                /\ \A j \in hits : i <= j
                /\ last.found = last.logs[i]

\* A log that fails to decode, then two logs of the event: the first is returned.
C6_Witness ==
    /\ last.op = "findEvent" /\ last.done
    /\ Len(last.logs) = 3
    /\ last.logs[1].topic = "malformed"
    /\ DecodesTo(last.logs[2], last.eventName)
    /\ DecodesTo(last.logs[3], last.eventName)
    /\ last.logs[2] # last.logs[3]
    /\ last.found = last.logs[2]

----------------------------------------------------------------------------
(* Claims about the entry points, checked under SpecPhase *)

AllWiring == {"provider", "wallet1", "contract1", "wallet2", "contract2"}

\* C7: with the contract address absent, construction raises before a chain
\* connection, an identity or a contract binding exists, and every entry
\* point then exits with status 1 without having run a scenario.
C7_MissingAddressFailsFast ==
    (~env.contractAddress /\ pc # "main") =>
        /\ pc = "exited"
        /\ exitCode = 1
        /\ wiring = {}
        /\ last.op = "construct"
        /\ last.out = Throw(Error(<<"Please set CONTRACT_ADDRESS in .env file">>))
        /\ history = <<>>
        /\ results = NewResults

\* Construction was attempted without a contract address, with a usable key.
C7_Witness ==
    /\ ~env.contractAddress /\ env.privateKey
    /\ pc = "exited" /\ exitCode = 1

\* C8: the process exits with status 1 exactly when an error escaped the
\* top-level invocation (construction or a step outside runTest); failures
\* that runTest captured leave the status at 0.
C8_ExitOneIffEscaped ==
    pc = "exited" =>
        /\ exitCode \in {0, 1}
        /\ exitCode = 1 <=> last.out.kind = "throw"
        /\ exitCode = 1 =>
              \/ last.op = "construct" /\ wiring # AllWiring
              \/ phase = 3 /\ last.op \in {"setupTestEnvironment", "setupTestAPI"}
        /\ (last.op = "printResults" /\ results.failed > 0) => exitCode = 0

\* A run in which a scenario failed ended with status 0.
C8_Witness ==
    /\ pc = "exited" /\ exitCode = 0
    /\ results.failed > 0
    /\ \E i \in 1..Len(history) : history[i].out = Return("false")

\* C9: a failure captured by runTest does not abort the run: the second
\* scenario follows the first whatever its outcome, printResults follows the
\* second, and passed + failed is then 2.
C9_FailureDoesNotAbort ==
    /\ Len(history) <= 2
    /\ Len(history) >= 1 =>
          /\ history[1].name = Scenario1Name
          /\ exitCode # 1
    /\ Len(history) = 1 => pc = "scenario2"
    /\ Len(history) = 2 =>
          /\ history[2].name = Scenario2Name
          /\ pc \in {"printResults", "exited"}
          /\ results.passed + results.failed = 2
    /\ (pc \in {"printResults", "exited"} /\ exitCode # 1) =>
          /\ Len(history) = 2
          /\ results.passed + results.failed = 2

\* The first scenario failed, the second ran, and the run ended normally.
C9_Witness ==
    /\ pc = "exited" /\ exitCode = 0
    /\ Len(history) = 2
    /\ history[1].out = Return("false")
    /\ history[2].out = Return("true")
    /\ last.op = "printResults"

\* C10: in the insufficient-stake scenario of phase 2, for every value of
\* nextApiId, a registration that the contract rejects and that leaves
\* nextApiId unchanged is recorded as passed.
C10_RejectedRegistrationPasses ==
    \A i \in 1..Len(history) :
        LET h == history[i] IN
        (/\ phase = 2
         /\ h.name = <<"Registration Failure - Insufficient Stake">>
         /\ h.txs[1] \in {"rejected", "reverted"}
         /\ h.chainAfter.nextApiId = h.chainBefore.nextApiId
         /\ h.act # Throw(RpcFailure))
        => /\ h.out = Return("true")
           /\ h.after.passed = h.before.passed + 1
           /\ h.after.failed = h.before.failed

\* C11: in the 'Successful Payment Flow' scenario of phase 3, with the price P
\* and the calls T of the API read before the payment, a payment of P that
\* is confirmed and whose later reads succeed is recorded as passed exactly
\* when the provider's balance grew by P and totalCalls is T + 1.
C11_PaymentPassesIffDeltas ==
    \A i \in 1..Len(history) :
        LET h == history[i] IN
        (/\ phase = 3
         /\ h.name = <<"Successful Payment Flow">>
         /\ h.txs = <<"mined">>
         /\ h.act # Throw(RpcFailure))
        => (h.out = Return("true")
              <=> /\ h.chainAfter.balance - h.chainBefore.balance = h.chainBefore.price
                  /\ h.chainAfter.totalCalls = h.chainBefore.totalCalls + 1)

\* A confirmed payment was recorded as passed.
C11_Witness ==
    /\ phase = 3 /\ Len(history) >= 1
    /\ history[1].name = <<"Successful Payment Flow">>
    /\ history[1].txs = <<"mined">>
    /\ history[1].out = Return("true")
    /\ history[1].chainAfter.balance = history[1].chainBefore.balance
                                          + history[1].chainBefore.price

\* The transactions of a phase 2 scenario that are expected to fail: the one
\* of the insufficient-stake scenario, the first two of the other.
ShouldFail(h) ==
    IF h.name = <<"Registration Failure - Insufficient Stake">> THEN {1} ELSE {1, 2}

\* C12: in every 'should fail' block of phase 2, when the operation is
\* submitted and confirmed instead, the error raised in the try block reaches
\* runTest and the scenario is recorded as failed.
C12_UnexpectedSuccessFailsScenario ==
    \A i \in 1..Len(history) :
        LET h == history[i] IN
        phase = 2 =>
            \A k \in ShouldFail(h) :
                h.txs[k] = "mined" =>
                    /\ h.act = Throw(h.swallowed[k])
                    /\ h.out = Return("false")

\* C14: in the 'Simple Overpayment Test' scenario of phase 3, once the two
\* reads before the try block have succeeded, the scenario is recorded as
\* passed whatever happens next: a rejected submission, a failed
\* confirmation, a failed read or a wrong balance increase is swallowed.
C14_OverpaymentAlwaysPasses ==
    \A i \in 1..Len(history) :
        LET h == history[i] IN
        (/\ phase = 3
         /\ h.name = <<"Simple Overpayment Test">>
         /\ h.txs # <<>>)
        => /\ h.out = Return("true")
           /\ h.after.passed = h.before.passed + 1
           /\ h.after.failed = h.before.failed
           /\ h.after.errors = h.before.errors

\* The overpayment was mined, the provider did not receive it in full, the
\* assertion of line 144 raised, and the scenario is recorded as passed.
C14_Witness ==
    /\ phase = 3 /\ Len(history) = 2
    /\ history[2].name = <<"Simple Overpayment Test">>
    /\ history[2].txs = <<"mined">>
    /\ history[2].swallowed = <<Error(<<"Provider should receive full overpayment">>)>>
    /\ history[2].out = Return("true")

----------------------------------------------------------------------------
(* Claims about the order of the awaits, checked under SpecSteps *)

\* the scenarios among the functions the runner has started so far
StartedScenarios == {j \in 1..run.k : Program(phase)[j].recorded}

\* C13: the scenarios of a run execute one after the other, a scenario
\* starting only when the previous one has been recorded; inside a function
\* a submitted transaction is confirmed before any later read and before
\* the next transaction is submitted, so that at most one transaction is
\* pending at any time and none when a function ends.
C13_AwaitedInOrder ==
    /\ Cardinality(run.pending) <= 1
    /\ (Inside /\ Instr.op \in {"read", "submit"}) => run.pending = {}
    /\ ~Inside => run.pending = {}
    /\ Len(history) = Cardinality(StartedScenarios)
                        - (IF run.ip > 0 /\ Script.recorded THEN 1 ELSE 0)

\* The second scenario of phase 1 is at the read of line 120, which follows
\* the submission and the confirmation of registerAPI; the first scenario
\* is recorded.
C13_Witness ==
    /\ phase = 1 /\ run.k = 2 /\ Inside
    /\ Instr = Read(120)
    /\ Len(history) = 1
    /\ run.pending = {}

----------------------------------------------------------------------------
(* Claims about interleaved invocations, checked under SpecConcurrent *)

AllDone == \A t \in 1..MaxTasks : tasks[t].state = "done"
TasksOn(h) == {t \in 1..MaxTasks : tasks[t].harness = h}
\* the invocations on instance h whose action raised, in order of completion
RaisedOn(h) == SelectSeq(history, LAMBDA e : e.harness = h /\ e.act.kind = "throw")

\* the counters of instance h account for every invocation made on it and
\* for no other
Accounted(h) ==
    /\ ResultsOf(h).passed
          = Cardinality({t \in TasksOn(h) : tasks[t].act.kind = "return"})
    /\ ResultsOf(h).failed
          = Cardinality({t \in TasksOn(h) : tasks[t].act.kind = "throw"})
    /\ Len(ResultsOf(h).errors) = Len(RaisedOn(h))
    /\ \A i \in 1..Len(RaisedOn(h)) :
          RaisedError(RaisedOn(h)[i])
              => ResultsOf(h).errors[i] = FailureEntry(RaisedOn(h)[i])

\* C15: when several runTest invocations are in flight at once and
\* interleave at their awaits, then once all have completed passed is the
\* number of actions that resolved, failed the number that raised, errors
\* holds one entry per raised action in order of completion, and the
\* counters of the other instance count only its own invocations.
C15_NoUpdateLost == AllDone => \A h \in Harnesses : Accounted(h)

\* The same for actions that raise Error objects: whatever the
\* interleaving, no update is lost.
InterleavedErrorsAccounted ==
    (AllDone /\ \A t \in 1..MaxTasks : tasks[t].act # Throw(Nullish))
        => \A h \in Harnesses : Accounted(h)

====
